---- MODULE Spec2Model ----
(***************************************************************************)
(* Model of clean_media.py: the cleanup pipeline main(content_dir), which  *)
(* runs rename_forced_subs, rename_en_to_eng_subs,                         *)
(* delete_nfo_and_txt_files and delete_empty_directories in that order on  *)
(* a filesystem tree.                                                      *)
(*                                                                         *)
(* A file name is the sequence of its dot-separated tokens:                *)
(* "a.1.en.srt" is <<"a","1","en","srt">>.  A directory is the sequence of *)
(* its components below the content directory; the content directory is    *)
(* <<>>.  A path is <<directory, name>>.  Directory components carry no    *)
(* dot, so the substring replacements the code applies to the whole path   *)
(* string only ever change the file name.  A file name is a base followed  *)
(* by one of the suffixes the passes look for; a base may end in a token   *)
(* that looks like a variant marker ("a.1", "a.2") but holds no whole      *)
(* suffix.                                                                 *)
(*                                                                         *)
(* The filesystem is POSIX (CONTENT_DIRS are /volume2/... paths):          *)
(* os.rename silently replaces an existing target file.                    *)
(***************************************************************************)
EXTENDS Integers, Sequences, FiniteSets, TLC

\* ---------------------------------------------------------------- bounds
MaxFiles == 2
MaxDepth == 3
MaxRuns == 2

\* ------------------------------------------------------- the input space
Root == <<>>

\* The chain of nested directories d1/d2/.../dk below the content directory.
RECURSIVE Chain(_)
Chain(k) == IF k = 0 THEN <<>> ELSE Append(Chain(k - 1), "d")

VariantSuffixes ==
  { <<"1", "en", "srt">>, <<"2", "en", "srt">>,
    <<"1", "eng", "srt">>, <<"2", "eng", "srt">> }

Suffixes ==
  VariantSuffixes \cup
    { <<"en", "srt">>, <<"eng", "srt">>, <<"eng", "forced", "srt">>,
      <<"nfo">>, <<"txt">>, <<"mkv">> }

\* The file names of base a.
Names == {<<"a">> \o s : s \in Suffixes}

\* The names with a variant marker, of bases that may themselves end in a
\* token that looks like one.
MarkerBases == {<<"a">>, <<"a", "1">>, <<"a", "2">>}

VariantNames == {b \o s : b \in MarkerBases, s \in VariantSuffixes}

\* ------------------------------------------------- strings and patterns
\* fnmatch of a name against "*" followed by "." and the tokens of suf.
EndsWith(n, suf) ==
  /\ Len(n) > Len(suf)
  /\ SubSeq(n, Len(n) - Len(suf) + 1, Len(n)) = suf

\* str.replace on the dotted tokens after the first one: every
\* non-overlapping occurrence of "." old, from the left, becomes "." new.
RECURSIVE ReplaceDotted(_, _, _)
ReplaceDotted(s, old, new) ==
  IF Len(s) < Len(old) THEN s
  ELSE IF SubSeq(s, 1, Len(old)) = old
       THEN new \o ReplaceDotted(SubSeq(s, Len(old) + 1, Len(s)), old, new)
       ELSE <<Head(s)>> \o ReplaceDotted(Tail(s), old, new)

Replace(n, old, new) ==
  IF n = <<>> THEN n ELSE <<Head(n)>> \o ReplaceDotted(Tail(n), old, new)

\* content_dir.glob("**/*" + pattern): the matching files of the tree.
Glob(f, suf) == {p \in DOMAIN f : EndsWith(p[2], suf)}

\* -------------------------------------------------- filesystem primitives
\* Path.rename / Path.replace (os.rename, os.replace on POSIX).
Rename(f, src, dst) ==
  [p \in (DOMAIN f \ {src}) \cup {dst} |-> IF p = dst THEN f[src] ELSE f[p]]

\* Path.unlink
Unlink(f, p) == [q \in DOMAIN f \ {p} |-> f[q]]

NoFile == [size |-> 0, id |-> <<Root, <<>>>>]

OpRename(src, dst) == [op |-> "rename", src |-> src, dst |-> dst]
OpUnlink(p) == [op |-> "unlink", src |-> p, dst |-> p]
OpWarning(p) == [op |-> "warning", src |-> p, dst |-> p]
OpRmdir(d) == [op |-> "rmdir", src |-> <<d, <<>>>>, dst |-> <<d, <<>>>>]

\* ------------------------------------------------------------- the state
VARIABLES
  fs,      \* the files: path |-> [size, id]; id names the file's content
  dirs,    \* the directories that exist (the content directory included)
  pc,      \* the pass main is in
  todo,    \* the paths the current glob has still to yield
  walk,    \* the directories os.walk has still to yield
  run,     \* how many times main has been started
  groups,  \* rename_forced_subs: one record per variant-1 file processed
  enlog,   \* rename_en_to_eng_subs: one record per file processed
  ops,     \* renames, unlinks, rmdirs and warnings of the current run
  fs0,     \* fs when the current run of main started
  dirs0    \* dirs when the current run of main started

vars == <<fs, dirs, pc, todo, walk, run, groups, enlog, ops, fs0, dirs0>>

\* ---------------------------------------------------- rename_forced_subs
lang_strs == <<"en", "eng">>

\* A variant of OrigTarget with the 2-letter tag written into the pattern.
OrigTargetEnOnly(n, lang) == Replace(n, <<"1", "en", "srt">>, <<"eng", "srt">>)

OrigTarget(n, lang) == Replace(n, <<"1", lang, "srt">>, <<"eng", "srt">>)

SiblingName(n, lang) == Replace(n, <<"1", lang, "srt">>, <<"2", lang, "srt">>)

ForcedTarget(n, lang) ==
  Replace(n, <<"2", lang, "srt">>, <<"eng", "forced", "srt">>)

\* Variants of Classify with one comparison changed.
ClassifyThresholdInclusive(forced_size, orig_size) ==
  IF forced_size >= orig_size THEN "delete"
  ELSE IF 5 * forced_size >= 2 * orig_size THEN "warning"
  ELSE "rename"

ClassifyStrictlyLarger(forced_size, orig_size) ==
  IF forced_size > orig_size THEN "delete"
  ELSE IF 5 * forced_size > 2 * orig_size THEN "warning"
  ELSE "rename"

ClassifyDeleteAboveThreshold(forced_size, orig_size) ==
  IF 5 * forced_size > 2 * orig_size THEN "delete" ELSE "rename"

\* The branch taken for a variant-2 file of size forced_size next to a
\* renamed variant-1 file of size orig_size.  forced_size > orig_size * 0.4
\* is a float comparison; for sizes below 2^53 the product is within half an
\* ulp of 2 * orig_size / 5 and exact when that is an integer, so it decides
\* as 5 * forced_size > 2 * orig_size.
Classify(forced_size, orig_size) ==
  IF forced_size >= orig_size THEN "delete"
  ELSE IF 5 * forced_size > 2 * orig_size THEN "warning"
  ELSE "rename"

\* One iteration of the inner loop, for the variant-1 file at path p:
\* the filesystem it leaves, the operations it performed and its record.
ForcedGroup(f, p, lang) ==
  LET d == p[1]
      target == <<d, OrigTarget(p[2], lang)>>
      f1 == Rename(f, p, target)
      sib == <<d, SiblingName(p[2], lang)>>
      exists == sib \in DOMAIN f1
      forced_size == IF exists THEN f1[sib].size ELSE 0
      orig_size == f1[target].size
      branch == IF exists THEN Classify(forced_size, orig_size) ELSE "none"
      ftarget == <<d, ForcedTarget(sib[2], lang)>>
      f2 == CASE branch = "delete" -> Unlink(f1, sib)
              [] branch = "rename" -> Rename(f1, sib, ftarget)
              [] OTHER -> f1
      acts == <<OpRename(p, target)>> \o
              (CASE branch = "delete" -> <<OpUnlink(sib)>>
                 [] branch = "warning" -> <<OpWarning(sib)>>
                 [] branch = "rename" -> <<OpRename(sib, ftarget)>>
                 [] OTHER -> <<>>)
  IN [fs |-> f2,
      acts |-> acts,
      rec |-> [lang |-> lang, orig |-> p, target |-> target, sib |-> sib,
               ftarget |-> ftarget, sibExists |-> exists,
               pre |-> f, origVal |-> f[p], sibVal |-> IF exists THEN f1[sib] ELSE NoFile,
               orig_size |-> orig_size, forced_size |-> forced_size,
               acts |-> acts]]

\* for lang_str in lang_strs: content_dir.glob(f"**/*.1.{lang_str}.srt")
ForcedGlob(i) ==
  /\ IF i = 1 THEN pc = "main" ELSE pc = "forced_" \o lang_strs[i - 1] /\ todo = {}
  /\ pc' = "forced_" \o lang_strs[i]
  /\ todo' = Glob(fs, <<"1", lang_strs[i], "srt">>)
  /\ UNCHANGED <<fs, dirs, walk, run, groups, enlog, ops, fs0, dirs0>>

ForcedStep(i) ==
  /\ pc = "forced_" \o lang_strs[i]
  /\ \E p \in todo :
       LET r == ForcedGroup(fs, p, lang_strs[i]) IN
         /\ fs' = r.fs
         /\ groups' = Append(groups, r.rec)
         /\ ops' = ops \o r.acts
         /\ todo' = todo \ {p}
  /\ UNCHANGED <<dirs, pc, walk, run, enlog, fs0, dirs0>>

rename_forced_subs == \E i \in DOMAIN lang_strs : ForcedGlob(i) \/ ForcedStep(i)

\* ------------------------------------------------- rename_en_to_eng_subs
EnTarget(n) == Replace(n, <<"en", "srt">>, <<"eng", "srt">>)

\* A variant of EnFile without the test for an existing 3-letter file.
EnFileNoCheck(f, p) ==
  LET eng == <<p[1], EnTarget(p[2])>>
      exists == eng \in DOMAIN f
      acts == <<OpRename(p, eng)>>
  IN [fs |-> Rename(f, p, eng),
      acts |-> acts,
      rec |-> [en |-> p, eng |-> eng, engExisted |-> exists,
               enVal |-> f[p], engVal |-> IF exists THEN f[eng] ELSE NoFile,
               acts |-> acts]]

\* One iteration of the loop, for the file at path p.
EnFile(f, p) ==
  LET eng == <<p[1], EnTarget(p[2])>>
      exists == eng \in DOMAIN f
      acts == IF exists THEN <<OpUnlink(p)>> ELSE <<OpRename(p, eng)>>
  IN [fs |-> IF exists THEN Unlink(f, p) ELSE Rename(f, p, eng),
      acts |-> acts,
      rec |-> [en |-> p, eng |-> eng, engExisted |-> exists,
               enVal |-> f[p], engVal |-> IF exists THEN f[eng] ELSE NoFile,
               acts |-> acts]]

EnGlob ==
  /\ pc = "forced_eng" /\ todo = {}
  /\ pc' = "en_to_eng"
  /\ todo' = Glob(fs, <<"en", "srt">>)
  /\ UNCHANGED <<fs, dirs, walk, run, groups, enlog, ops, fs0, dirs0>>

EnStep ==
  /\ pc = "en_to_eng"
  /\ \E p \in todo :
       LET r == EnFile(fs, p) IN
         /\ fs' = r.fs
         /\ enlog' = Append(enlog, r.rec)
         /\ ops' = ops \o r.acts
         /\ todo' = todo \ {p}
  /\ UNCHANGED <<dirs, pc, walk, run, groups, fs0, dirs0>>

rename_en_to_eng_subs == EnGlob \/ EnStep

\* ---------------------------------------------- delete_nfo_and_txt_files
NfoGlob ==
  /\ pc = "en_to_eng" /\ todo = {}
  /\ pc' = "nfo"
  /\ todo' = Glob(fs, <<"nfo">>)
  /\ UNCHANGED <<fs, dirs, walk, run, groups, enlog, ops, fs0, dirs0>>

TxtGlob ==
  /\ pc = "nfo" /\ todo = {}
  /\ pc' = "txt"
  /\ todo' = Glob(fs, <<"txt">>)
  /\ UNCHANGED <<fs, dirs, walk, run, groups, enlog, ops, fs0, dirs0>>

DeleteStep ==
  /\ pc \in {"nfo", "txt"}
  /\ \E p \in todo :
       /\ fs' = Unlink(fs, p)
       /\ ops' = Append(ops, OpUnlink(p))
       /\ todo' = todo \ {p}
  /\ UNCHANGED <<dirs, pc, walk, run, groups, enlog, fs0, dirs0>>

delete_nfo_and_txt_files == NfoGlob \/ TxtGlob \/ DeleteStep

\* ---------------------------------------------- delete_empty_directories
IsPrefix(a, b) == Len(a) <= Len(b) /\ SubSeq(b, 1, Len(a)) = a

Children(ds, top) == {d \in ds : Len(d) = Len(top) + 1 /\ IsPrefix(top, d)}

\* os.walk(top, topdown=False): each subdirectory's walk, then top itself.
\* The directories of the model form a chain, so a directory has at most
\* one subdirectory and scandir's order leaves no choice.
RECURSIVE Walk(_, _)
Walk(ds, top) ==
  LET kids == Children(ds, top) IN
    IF kids = {} THEN <<top>>
    ELSE Walk(ds, CHOOSE c \in kids : TRUE) \o <<top>>

\* os.rmdir succeeds on a directory with no entry and raises OSError otherwise.
IsEmptyDir(f, ds, d) ==
  /\ \A p \in DOMAIN f : p[1] # d
  /\ Children(ds, d) = {}

\* A variant of PruneDir without the test for the content directory.
PruneDirNoRootCheck(f, ds, d, rest) ==
  IF IsEmptyDir(f, ds, d)
  THEN [dirs |-> ds \ {d}, walk |-> rest, acts |-> <<OpRmdir(d)>>]
  ELSE [dirs |-> ds, walk |-> rest, acts |-> <<>>]

\* The body of the loop for the yielded directory d: the directories it
\* leaves, and the rest of the walk (a break drops it).
PruneDir(f, ds, d, rest) ==
  IF d = Root THEN [dirs |-> ds, walk |-> <<>>, acts |-> <<>>]
  ELSE IF IsEmptyDir(f, ds, d)
       THEN [dirs |-> ds \ {d}, walk |-> rest, acts |-> <<OpRmdir(d)>>]
       ELSE [dirs |-> ds, walk |-> rest, acts |-> <<>>]

WalkStart ==
  /\ pc = "txt" /\ todo = {}
  /\ pc' = "prune"
  /\ walk' = Walk(dirs, Root)
  /\ UNCHANGED <<fs, dirs, todo, run, groups, enlog, ops, fs0, dirs0>>

PruneStep ==
  /\ pc = "prune" /\ walk # <<>>
  /\ LET r == PruneDir(fs, dirs, Head(walk), Tail(walk)) IN
       /\ dirs' = r.dirs
       /\ walk' = r.walk
       /\ ops' = ops \o r.acts
  /\ UNCHANGED <<fs, pc, todo, run, groups, enlog, fs0, dirs0>>

delete_empty_directories == WalkStart \/ PruneStep

\* ------------------------------------------------------------------ main
Return ==
  /\ pc = "prune" /\ walk = <<>>
  /\ pc' = "done"
  /\ UNCHANGED <<fs, dirs, todo, walk, run, groups, enlog, ops, fs0, dirs0>>

\* main(content_dir) is started again on the tree the previous run left.
Rerun ==
  /\ pc = "done" /\ run < MaxRuns
  /\ pc' = "main"
  /\ run' = run + 1
  /\ fs0' = fs /\ dirs0' = dirs
  /\ groups' = <<>> /\ enlog' = <<>> /\ ops' = <<>>
  /\ UNCHANGED <<fs, dirs, todo, walk>>

main == Return \/ Rerun

\* ---------------------------------------------------------- initial trees
VariantSizes == {0, 400, 401, 999, 1000}
PlainSizes == {0, 1000}

SizesOf(n) ==
  IF EndsWith(n, <<"2", "en", "srt">>) \/ EndsWith(n, <<"2", "eng", "srt">>)
  THEN VariantSizes ELSE PlainSizes

FileSets == {S \in SUBSET Names : Cardinality(S) <= MaxFiles}

VariantFileSets ==
  {S \in SUBSET VariantNames : Cardinality(S) <= MaxFiles + 1}

SizeChoices(S) ==
  {z \in [S -> VariantSizes \cup PlainSizes] : \A n \in S : z[n] \in SizesOf(n)}

\* The tree with the files S, of the sizes sz, in directory d.
Tree(d, S, sz) == [p \in {<<d, n>> : n \in S} |-> [size |-> sz[p[2]], id |-> p]]

InitWith(ds, f) ==
  /\ dirs = ds
  /\ fs = f
  /\ pc = "main"
  /\ todo = {}
  /\ walk = <<>>
  /\ run = 1
  /\ groups = <<>>
  /\ enlog = <<>>
  /\ ops = <<>>
  /\ fs0 = f
  /\ dirs0 = ds

\* A chain of k nested directories below the content directory and up to
\* MaxFiles files of base a in one of them; or up to MaxFiles + 1 files
\* with variant markers in a content directory without subdirectories.
Init ==
  \/ \E k \in 0..MaxDepth, S \in FileSets :
       \E j \in 0..k, sz \in SizeChoices(S) :
         InitWith({Chain(i) : i \in 0..k}, Tree(Chain(j), S, sz))
  \/ \E S \in VariantFileSets :
       \E sz \in SizeChoices(S) : InitWith({Root}, Tree(Root, S, sz))

Next ==
  \/ rename_forced_subs
  \/ rename_en_to_eng_subs
  \/ delete_nfo_and_txt_files
  \/ delete_empty_directories
  \/ main

Spec == Init /\ [][Next]_vars

\* ======================================================== properties
\* rename_forced_subs has returned.
ForcedReturned == pc = "forced_eng" /\ todo = {}

\* The state is the one the latest iteration of rename_forced_subs left.
AfterGroup == pc \in {"forced_en", "forced_eng"} /\ groups # <<>>

LastGroup == groups[Len(groups)]

\* rename_en_to_eng_subs has returned.
EnReturned == pc = "en_to_eng" /\ todo = {}

\* The name without its last k tokens.
Stem(n, k) == SubSeq(n, 1, Len(n) - k)

\* The size conditions of the three branches, on the sizes the group read.
InBand(g) ==
  /\ g.sibExists
  /\ g.forced_size < g.orig_size
  /\ 5 * g.forced_size > 2 * g.orig_size

IsConfident(g) ==
  /\ g.sibExists
  /\ g.forced_size < g.orig_size
  /\ 5 * g.forced_size <= 2 * g.orig_size

IsDuplicate(g) == g.sibExists /\ g.forced_size >= g.orig_size

\* The operations of the run that rename, replace or delete the file at p.
Touching(p) ==
  {i \in DOMAIN ops : ops[i].op \in {"rename", "unlink"}
                      /\ (ops[i].src = p \/ ops[i].dst = p)}

Changes == {i \in DOMAIN ops : ops[i].op \in {"rename", "unlink", "rmdir"}}

IsVariantName(n) == \E suf \in VariantSuffixes : EndsWith(n, suf)

\* C1: a second run of main on the tree the first run left performs no
\* rename, no deletion and no directory removal, and leaves the paths and
\* the files as they were.
Idempotence ==
  (pc = "done" /\ run >= 2) => Changes = {} /\ fs = fs0 /\ dirs = dirs0

\* C2: when rename_forced_subs returns, a variant-2 file whose size was in
\* the ambiguous band (below the variant-1 size, above 0.4 of it) is still
\* at its path with its content and size; no rename or unlink touched it,
\* and the group only renamed variant-1 and logged the warning.
AmbiguousBandUntouched ==
  ForcedReturned =>
    \A i \in DOMAIN groups :
      LET g == groups[i] IN
        InBand(g) =>
          /\ g.sib \in DOMAIN fs
          /\ fs[g.sib] = g.sibVal
          /\ Touching(g.sib) = {}
          /\ g.acts = <<OpRename(g.orig, g.target), OpWarning(g.sib)>>

\* C3: a variant-2 file of size at most 0.4 of the variant-1 size (and below
\* it) is renamed from <base>.2.<tag>.srt to <base>.eng.forced.srt: after the
\* group's iteration its content is at that path, nothing is at the old
\* path, and the group neither unlinked anything nor logged a warning.
ConfidentForcedRenamed ==
  AfterGroup =>
    LET g == LastGroup
        base == Stem(g.sib[2], 3)
    IN IsConfident(g) =>
         /\ g.sib[2] = base \o <<"2", g.lang, "srt">>
         /\ g.ftarget = <<g.sib[1], base \o <<"eng", "forced", "srt">>>>
         /\ g.sib \notin DOMAIN fs
         /\ g.ftarget \in DOMAIN fs
         /\ fs[g.ftarget] = g.sibVal
         /\ g.acts = <<OpRename(g.orig, g.target), OpRename(g.sib, g.ftarget)>>

ConfidentForcedWitness ==
  /\ AfterGroup
  /\ IsConfident(LastGroup)
  /\ LastGroup.forced_size = 400 /\ LastGroup.orig_size = 1000
  /\ LastGroup.ftarget \in DOMAIN fs

\* C4: a variant-2 file at least as large as the variant-1 file (equal
\* sizes and 0 against 0 included) is deleted: after the group's iteration
\* its content is at no path, and of the group only <base>.eng.srt, with the
\* variant-1 content, is left.
DuplicateDeleted ==
  AfterGroup =>
    LET g == LastGroup IN
      IsDuplicate(g) =>
        /\ g.sib \notin DOMAIN fs
        /\ g.orig \notin DOMAIN fs
        /\ \A p \in DOMAIN fs : fs[p].id # g.sibVal.id
        /\ g.target \in DOMAIN fs
        /\ fs[g.target] = g.origVal
        /\ g.acts = <<OpRename(g.orig, g.target), OpUnlink(g.sib)>>

DuplicateWitness ==
  /\ AfterGroup
  /\ IsDuplicate(LastGroup)
  /\ LastGroup.forced_size = LastGroup.orig_size
  /\ LastGroup.sib \notin DOMAIN fs

\* C5, as stated: next to a variant-1 file of size 1000, a variant-2 file of
\* size 999 is deleted.
Size999Deleted ==
  AfterGroup =>
    LET g == LastGroup IN
      (g.sibExists /\ g.orig_size = 1000 /\ g.forced_size = 999) =>
        /\ g.sib \notin DOMAIN fs
        /\ g.acts[Len(g.acts)] = OpUnlink(g.sib)

\* C5, amended: next to a variant-1 file of size 1000, a variant-2 file of
\* size 999 is kept where it is, with a warning; one of size 1000 is deleted.
Size999Kept ==
  AfterGroup =>
    LET g == LastGroup IN
      /\ (g.sibExists /\ g.orig_size = 1000 /\ g.forced_size = 999) =>
           /\ g.sib \in DOMAIN fs
           /\ fs[g.sib] = g.sibVal
           /\ g.acts[Len(g.acts)] = OpWarning(g.sib)
      /\ (g.sibExists /\ g.orig_size = 1000 /\ g.forced_size = 1000) =>
           /\ g.sib \notin DOMAIN fs
           /\ g.acts[Len(g.acts)] = OpUnlink(g.sib)

Size999Witness ==
  /\ AfterGroup
  /\ LastGroup.sibExists
  /\ LastGroup.orig_size = 1000 /\ LastGroup.forced_size = 999
  /\ LastGroup.sib \in DOMAIN fs

\* C6: every iteration first renames the variant-1 file <base>.1.<tag>.srt,
\* which exists when it is visited, to <base>.eng.srt, whatever branch
\* follows; when no <base>.2.<tag>.srt exists, that rename is all the
\* iteration does: every other file is where and what it was.
VariantOneAlwaysRenamed ==
  AfterGroup =>
    LET g == LastGroup
        base == Stem(g.orig[2], 3)
    IN /\ g.orig \in DOMAIN g.pre
       /\ g.orig[2] = base \o <<"1", g.lang, "srt">>
       /\ g.target = <<g.orig[1], base \o <<"eng", "srt">>>>
       /\ g.sib = <<g.orig[1], base \o <<"2", g.lang, "srt">>>>
       /\ g.sibExists = (g.sib \in DOMAIN g.pre)
       /\ Head(g.acts) = OpRename(g.orig, g.target)
       /\ g.orig \notin DOMAIN fs
       /\ g.target \in DOMAIN fs
       /\ fs[g.target] = g.origVal
       /\ ~g.sibExists =>
            /\ g.acts = <<OpRename(g.orig, g.target)>>
            /\ DOMAIN fs = (DOMAIN g.pre \ {g.orig}) \cup {g.target}
            /\ \A q \in DOMAIN g.pre \ {g.orig, g.target} : fs[q] = g.pre[q]

MissingSiblingWitness ==
  /\ AfterGroup
  /\ ~LastGroup.sibExists
  /\ LastGroup.lang = "eng"
  /\ LastGroup.target \in DOMAIN fs
  /\ Cardinality(DOMAIN fs) = 2

\* C7: when rename_en_to_eng_subs returns, every <base>.en.srt it examined
\* is gone; where <base>.eng.srt existed at that time it still has the
\* content it had and the .en.srt file was unlinked, otherwise
\* <base>.eng.srt has the content of the .en.srt file; and no file ending in
\* .en.srt is left.
EnCollapsed ==
  EnReturned =>
    /\ Glob(fs, <<"en", "srt">>) = {}
    /\ \A i \in DOMAIN enlog :
         LET r == enlog[i]
             base == Stem(r.en[2], 2)
         IN /\ r.en[2] = base \o <<"en", "srt">>
            /\ r.eng = <<r.en[1], base \o <<"eng", "srt">>>>
            /\ r.en \notin DOMAIN fs
            /\ r.eng \in DOMAIN fs
            /\ IF r.engExisted
               THEN fs[r.eng] = r.engVal /\ r.acts = <<OpUnlink(r.en)>>
               ELSE fs[r.eng] = r.enVal /\ r.acts = <<OpRename(r.en, r.eng)>>

EnCollapsedWitness ==
  /\ EnReturned
  /\ \E i \in DOMAIN enlog :
       /\ enlog[i].engExisted
       /\ enlog[i].enVal.size # enlog[i].engVal.size
       /\ enlog[i].eng \in DOMAIN fs

\* C8: when main is done, of the directories the run started with exactly
\* the content directory and those with a file somewhere below them are
\* left: every directory holding no file at any depth was removed in the one
\* pass, and the content directory stays even when empty.
EmptyDirectoriesPruned ==
  pc = "done" =>
    /\ Root \in dirs
    /\ dirs = {d \in dirs0 : d = Root \/ \E p \in DOMAIN fs : IsPrefix(d, p[1])}

PrunedChainWitness ==
  /\ pc = "done"
  /\ <<"d", "d", "d">> \in dirs0
  /\ DOMAIN fs = {}
  /\ dirs = {Root}

\* C9: a variant-2 file <base>.2.en.srt that rename_forced_subs left in
\* place through the warning branch is still at that path, with its
\* content, when main is done.
WarnedFileStaysPut ==
  pc = "done" =>
    \A i \in DOMAIN groups :
      LET g == groups[i] IN
        (g.lang = "en" /\ InBand(g)) =>
          g.sib \in DOMAIN fs /\ fs[g.sib] = g.sibVal

\* C10: when rename_forced_subs returns, every file that existed before it
\* and whose name does not end in .1.<tag>.srt or .2.<tag>.srt still exists
\* with its content.
ForcedPassFrame ==
  ForcedReturned =>
    \A p \in DOMAIN fs0 :
      ~IsVariantName(p[2]) => p \in DOMAIN fs /\ fs[p] = fs0[p]

====
